---- MODULE Spec2Model ----
(***************************************************************************)
(* Model of the audit execution pipeline of cargo-scout-audit:             *)
(*   - findings classification   (startup.rs: output_to_json, get_crates,  *)
(*                                split_findings)                          *)
(*   - plugin loader             (utils/detectors_info.rs)                 *)
(*   - run_scout stage machine   (startup.rs: run_scout)                   *)
(*   - error telemetry forwarder (clippy-wrapper-print-error/src/lib.rs)   *)
(*   - report summary            (output/markdown/generator.rs)            *)
(* Each component has its own specification over the shared variables; the *)
(* variables of the other components stay at their idle values.            *)
(***************************************************************************)
EXTENDS Integers, Sequences, FiniteSets, TLC

VARIABLES
    \* ---- classification (startup.rs lines 410-413) ----
    cpc,                 \* position in the classification part of run_scout
    output_string,       \* the lines of the captured diagnostic stream
    output,              \* Vec<Value> returned by output_to_json
    ci,                  \* number of values get_crates has consumed
    crates,              \* HashMap<String, bool> built by get_crates
    raw_findings,        \* Vec<String> of side-channel finding records
    fi,                  \* number of findings split_findings has consumed
    successful_findings, \* first list returned by split_findings
    failed_findings,     \* second list returned by split_findings
    \* ---- plugin loader (utils/detectors_info.rs) ----
    lpc,                 \* position in get_detectors_info
    detectors_paths,     \* the plugin libraries behind the paths, in order
    li,                  \* number of paths the loop has finished
    lint_store,          \* HashMap id -> index of the plugin whose LintInfo it holds
    custom_dectectors,   \* HashMap id -> index of the plugin whose CustomLint it holds
    lib_refs,            \* per path: strong count of its Arc<Library> (0 = not loaded)
    ldr_error,           \* index of the path the returned error names (0 = none)
    calls,               \* the CustomLint::call invocations made so far
    \* ---- run_scout (startup.rs lines 285-425) ----
    rpc,                 \* position of the parent process in run_scout
    opts,                \* the flags of Scout that end run_scout early
    dependencies,        \* names of the immediate dependencies of the project
    active_toolchain,    \* toolchain the parent process runs under
    toolchain,           \* toolchain the project requires ("none" before dispatch)
    child,               \* "none", "running" or "exited": the re-exec child
    child_exit,          \* exit code of the re-exec child (-1 = none)
    ran,                 \* stages of run_scout the parent has executed
    successful_build,    \* flag returned by run_dylint ("none" before it)
    dylint_result,       \* "none", "Ok" or "Err": what dylint::run returned
    run_result,          \* "none", "Ok", "Err" or "panic": what run_scout returned
    \* ---- print_error (clippy-wrapper-print-error/src/lib.rs) ----
    lock,                \* PRINT_ERROR_LOCK: 0 = free, else the thread holding it
    poisoned,            \* the Mutex was held by a thread that panicked
    stderr_to,           \* 0 = the process's stderr, else the thread whose pipe has it
    pe_pc,               \* per thread: position in print_error
    port,                \* per thread: "unread", "set" or "unset" (SCOUT_PORT_NUMBER)
    out_capture,         \* per thread: "orig" or "none" (thread's output capture)
    cb_result,           \* per thread: "none", "returned" or "panicked" (what cb did)
    cb_calls,            \* per thread: times cb was invoked in this call
    captures,            \* per thread: output redirections started in this call
    pipe_ok,             \* per thread: "none", "ok" or "err" (pipe_result)
    sends,               \* per thread: relay sends attempted in this call
    send_ok,             \* per thread: "none", "ok" or "failed" (the relay send)
    body,                \* per thread: "none", "wrapped_json" or "raw_text"
    pe_outcome,          \* per thread: "none", "returned", "panicked", "rejected"
    \* ---- report summary (output/markdown/generator.rs) ----
    spc,                 \* position in generate_summary_context
    categories,          \* report.categories
    findings,            \* report.findings: the category_id of each finding
    si,                  \* number of findings summarize_findings has consumed
    summary,             \* HashMap id -> (count, severity) of summarize_findings
    gi,                  \* number of categories the filter_map has consumed
    summary_categories,  \* the SummaryCategory list collected so far
    \* ---- toolchain dispatch (scout/blockchain.rs) ----
    metadata,            \* cargo metadata: packages and workspace_members
    dispatched           \* results of the calls of get_blockchain_dependency so far

clsVars == <<cpc, output_string, output, ci, crates, raw_findings, fi,
             successful_findings, failed_findings>>

ldrVars == <<lpc, detectors_paths, li, lint_store, custom_dectectors, lib_refs,
             ldr_error, calls>>

runVars == <<rpc, opts, dependencies, active_toolchain, toolchain, child, child_exit,
             ran, successful_build, dylint_result, run_result>>

peVars == <<lock, poisoned, stderr_to, pe_pc, port, out_capture, cb_result, cb_calls,
            captures, pipe_ok, sends, send_ok, body, pe_outcome>>

sumVars == <<spc, categories, findings, si, summary, gi, summary_categories>>

dspVars == <<metadata, dispatched>>

vars == <<clsVars, ldrVars, runVars, peVars, sumVars, dspVars>>

(***************************************************************************)
(* Bounds                                                                  *)
(***************************************************************************)
MaxLines == 2
MaxFindings == 2
MaxPlugins == 3
MaxExitCode == 2
NThreads == 2
MaxCategories == 2
MaxReportFindings == 2

SeqsUpTo(S, n) == UNION {[1..k -> S] : k \in 0..n}

(***************************************************************************)
(* Classification: data                                                    *)
(***************************************************************************)
Names == {"pallet_a", "pallet_b"}

\* One line of the diagnostic stream. wf = FALSE is a line that is not JSON.
\* reason: the "reason" field ("none" = absent); message: the "message" field
\* is present; level: message.level ("none" = absent); name: target.name
\* ("none" = absent).
Line(wf, reason, message, level, name) ==
    [wf |-> wf, reason |-> reason, message |-> message, level |-> level, name |-> name]

MalformedLine == Line(FALSE, "none", FALSE, "none", "none")

Lines ==
    {MalformedLine,
     Line(TRUE, "build-finished", FALSE, "none", "none"),
     Line(TRUE, "none", TRUE, "error", "pallet_a"),
     Line(TRUE, "compiler-message", FALSE, "none", "pallet_a"),
     Line(TRUE, "compiler-message", TRUE, "error", "none"),
     Line(TRUE, "compiler-message", TRUE, "none", "pallet_a")}
    \cup {Line(TRUE, "compiler-message", TRUE, l, n) :
              l \in {"error", "warning"}, n \in Names}

\* One side-channel finding record. wf = FALSE is a record that is not JSON.
\* crate: the "crate" field ("none" = absent); message: "message" is present.
FindingRec(wf, crate, message) == [wf |-> wf, crate |-> crate, message |-> message]

FindingRecs ==
    {FindingRec(FALSE, "none", FALSE),
     FindingRec(TRUE, "none", TRUE),
     FindingRec(TRUE, "pallet_a", FALSE)}
    \cup {FindingRec(TRUE, n, TRUE) : n \in Names}

EmptyMap == [n \in {} |-> TRUE]

\* HashMap::insert: a later insert under the same key replaces the value.
HashMapInsert(m, k, v) ==
    [n \in (DOMAIN m) \cup {k} |-> IF n = k THEN v ELSE m[n]]

(***************************************************************************)
(* Plugin loader: data                                                     *)
(***************************************************************************)
DetectorIds == {"d1", "d2"}

\* What is behind one plugin path. opens: Library::new succeeds; lint_info:
\* the library exports lint_info; utf8: every field lint_info writes is valid
\* UTF-8; id: the identifier lint_info declares; custom: the library exports
\* custom_detector. The path itself is the position in detectors_paths.
Plugin(opens, lint_info, utf8, id, custom) ==
    [opens |-> opens, lint_info |-> lint_info, utf8 |-> utf8, id |-> id, custom |-> custom]

Plugins ==
    {Plugin(FALSE, FALSE, FALSE, "d1", FALSE),
     Plugin(TRUE, FALSE, FALSE, "d1", TRUE),
     Plugin(TRUE, TRUE, FALSE, "d1", FALSE)}
    \cup {Plugin(TRUE, TRUE, TRUE, d, c) : d \in DetectorIds, c \in BOOLEAN}

ValidPlugin(p) == p.opens /\ p.lint_info /\ p.utf8

LdrIdle ==
    /\ lpc = "idle"
    /\ detectors_paths = <<>>
    /\ li = 0
    /\ lint_store = EmptyMap
    /\ custom_dectectors = EmptyMap
    /\ lib_refs = <<>>
    /\ ldr_error = 0
    /\ calls = {}

(***************************************************************************)
(* run_scout: data                                                         *)
(***************************************************************************)
INK_TOOLCHAIN == "nightly-2023-12-16"
SOROBAN_TOOLCHAIN == "nightly-2024-07-11"

DependencyNames == {"soroban-sdk", "ink", "frame-system", "serde"}

ActiveToolchains == {INK_TOOLCHAIN, SOROBAN_TOOLCHAIN, "stable"}

ExitCodes == 0..MaxExitCode

\* BlockChain::get_blockchain_dependency: first match in a fixed order.
get_blockchain_dependency(immediate_dependencies) ==
    IF "soroban-sdk" \in immediate_dependencies THEN "Soroban"
    ELSE IF "ink" \in immediate_dependencies THEN "Ink"
    ELSE IF "frame-system" \in immediate_dependencies THEN "SubstratePallet"
    ELSE "Err"

\* BlockChain::get_toolchain.
get_toolchain(blockchain) ==
    CASE blockchain = "Ink" -> INK_TOOLCHAIN
      [] blockchain = "Soroban" -> SOROBAN_TOOLCHAIN
      [] blockchain = "SubstratePallet" -> INK_TOOLCHAIN

\* The stages of run_scout below the re-exec (lines 305-424).
LaterStages ==
    {"update_check", "detectors_config", "detector_names", "select_detectors",
     "build_detectors", "get_detectors_info", "project_info", "run_dylint",
     "classify", "do_report"}

RunIdle ==
    /\ rpc = "idle"
    /\ opts = [toolchain |-> FALSE, list_detectors |-> FALSE, detectors_metadata |-> FALSE]
    /\ dependencies = {}
    /\ active_toolchain = "stable"
    /\ toolchain = "none"
    /\ child = "none"
    /\ child_exit = -1
    /\ ran = {}
    /\ successful_build = "none"
    /\ dylint_result = "none"
    /\ run_result = "none"

(***************************************************************************)
(* print_error: data                                                       *)
(***************************************************************************)
Threads == 1..NThreads

\* The state before any thread has called print_error.
PeIdle ==
    /\ lock = 0
    /\ poisoned = FALSE
    /\ stderr_to = 0
    /\ pe_pc = [t \in Threads |-> "idle"]
    /\ port = [t \in Threads |-> "unread"]
    /\ out_capture = [t \in Threads |-> "orig"]
    /\ cb_result = [t \in Threads |-> "none"]
    /\ cb_calls = [t \in Threads |-> 0]
    /\ captures = [t \in Threads |-> 0]
    /\ pipe_ok = [t \in Threads |-> "none"]
    /\ sends = [t \in Threads |-> 0]
    /\ send_ok = [t \in Threads |-> "none"]
    /\ body = [t \in Threads |-> "none"]
    /\ pe_outcome = [t \in Threads |-> "none"]

(***************************************************************************)
(* Report summary: data                                                    *)
(***************************************************************************)
CategoryIds == {"c1", "c2"}

\* A Category: its id and the severities of its vulnerabilities, in order.
Category(id, vulnerabilities) == [id |-> id, vulnerabilities |-> vulnerabilities]

Categories == {Category(c, v) : c \in CategoryIds, v \in {<<>>, <<"medium">>}}

SumIdle ==
    /\ spc = "idle"
    /\ categories = <<>>
    /\ findings = <<>>
    /\ si = 0
    /\ summary = EmptyMap
    /\ gi = 0
    /\ summary_categories = <<>>

(***************************************************************************)
(* Toolchain dispatch: data                                                *)
(***************************************************************************)
MaxDispatchRuns == 2

\* Package ids of the cargo metadata. "serde" is the package behind the
\* dependency of that name; a workspace member may have no package record.
PackageIds == {"app", "contract", "serde"}

\* cargo_metadata::Metadata, reduced to the two fields blockchain.rs reads:
\* packages maps the id of each package record to the names of its declared
\* dependencies, workspace_members holds the ids of the workspace members.
Metadatas ==
    UNION {[packages : [P -> SUBSET DependencyNames],
            workspace_members : SUBSET PackageIds] : P \in SUBSET PackageIds}

\* BlockChain::variants: the enum's variants in declaration order.
variants == <<"Ink", "Soroban", "SubstratePallet">>

DspIdle ==
    /\ metadata = [packages |-> EmptyMap, workspace_members |-> {}]
    /\ dispatched = <<>>

(***************************************************************************)
(* Classification: operations                                              *)
(***************************************************************************)
\* get_crates lines 222-229 and 232-235: the records the loop does not skip.
IsCompilerMessage(val) ==
    /\ val.reason = "compiler-message"
    /\ val.message
    /\ val.name # "none"

\* get_crates lines 236-237.
LevelOk(val) == val.level = "none" \/ val.level # "error"

\* get_crates line 238.
RecordStatus(m, val) == HashMapInsert(m, val.name, LevelOk(val))

\* Mutant: an absent unit defaults to failed (unwrap_or(&false)).
IsTrustworthy_DefaultFailed(m, krate) == IF krate \in DOMAIN m THEN m[krate] ELSE FALSE

\* split_findings line 265: crates.get(&krate).unwrap_or(&true).
IsTrustworthy(m, krate) == IF krate \in DOMAIN m THEN m[krate] ELSE TRUE

\* split_findings lines 261-264: the message, tagged with its crate. src is
\* the position of the record in raw_findings (the identity of the message).
TaggedMessage(i, rec) == [src |-> i, crate |-> rec.crate]

ClsInit ==
    /\ cpc = "output_to_json"
    /\ output_string \in SeqsUpTo(Lines, MaxLines)
    /\ raw_findings \in SeqsUpTo(FindingRecs, MaxFindings)
    /\ output = <<>>
    /\ ci = 0
    /\ crates = EmptyMap
    /\ fi = 0
    /\ successful_findings = <<>>
    /\ failed_findings = <<>>

ClsIdle ==
    /\ cpc = "idle"
    /\ output_string = <<>>
    /\ raw_findings = <<>>
    /\ output = <<>>
    /\ ci = 0
    /\ crates = EmptyMap
    /\ fi = 0
    /\ successful_findings = <<>>
    /\ failed_findings = <<>>

\* output_to_json: every line is parsed with unwrap(); a line that is not
\* JSON panics, and no Vec is returned.
output_to_json ==
    /\ cpc = "output_to_json"
    /\ IF \E j \in 1..Len(output_string) : ~output_string[j].wf
          THEN cpc' = "panic" /\ output' = output
          ELSE cpc' = "get_crates" /\ output' = output_string
    /\ UNCHANGED <<output_string, ci, crates, raw_findings, fi,
                   successful_findings, failed_findings>>
    /\ UNCHANGED <<ldrVars, runVars, peVars, sumVars, dspVars>>

\* get_crates: one iteration of the for loop.
get_crates_step ==
    /\ cpc = "get_crates"
    /\ ci < Len(output)
    /\ ci' = ci + 1
    /\ crates' = IF IsCompilerMessage(output[ci + 1])
                    THEN RecordStatus(crates, output[ci + 1])
                    ELSE crates
    /\ UNCHANGED <<cpc, output_string, output, raw_findings, fi,
                   successful_findings, failed_findings>>
    /\ UNCHANGED <<ldrVars, runVars, peVars, sumVars, dspVars>>

\* get_crates: the loop ends and the map is returned.
get_crates_return ==
    /\ cpc = "get_crates"
    /\ ci = Len(output)
    /\ cpc' = "split_parse"
    /\ UNCHANGED <<output_string, output, ci, crates, raw_findings, fi,
                   successful_findings, failed_findings>>
    /\ UNCHANGED <<ldrVars, runVars, peVars, sumVars, dspVars>>

\* split_findings lines 248-251: every record is parsed with unwrap().
split_findings_parse ==
    /\ cpc = "split_parse"
    /\ IF \E j \in 1..Len(raw_findings) : ~raw_findings[j].wf
          THEN cpc' = "panic"
          ELSE cpc' = "split_findings"
    /\ UNCHANGED <<output_string, output, ci, crates, raw_findings, fi,
                   successful_findings, failed_findings>>
    /\ UNCHANGED <<ldrVars, runVars, peVars, sumVars, dspVars>>

\* split_findings lines 255-271: one iteration of the for loop.
split_findings_step ==
    /\ cpc = "split_findings"
    /\ fi < Len(raw_findings)
    /\ fi' = fi + 1
    /\ LET rec == raw_findings[fi + 1] IN
         IF rec.crate = "none" \/ ~rec.message
            THEN UNCHANGED <<successful_findings, failed_findings>>
            ELSE IF IsTrustworthy(crates, rec.crate)
                    THEN /\ successful_findings' =
                              Append(successful_findings, TaggedMessage(fi + 1, rec))
                         /\ UNCHANGED failed_findings
                    ELSE /\ failed_findings' =
                              Append(failed_findings, TaggedMessage(fi + 1, rec))
                         /\ UNCHANGED successful_findings
    /\ UNCHANGED <<cpc, output_string, output, ci, crates, raw_findings>>
    /\ UNCHANGED <<ldrVars, runVars, peVars, sumVars, dspVars>>

\* split_findings line 273, then run_scout hands successful_findings to do_report.
split_findings_return ==
    /\ cpc = "split_findings"
    /\ fi = Len(raw_findings)
    /\ cpc' = "do_report"
    /\ UNCHANGED <<output_string, output, ci, crates, raw_findings, fi,
                   successful_findings, failed_findings>>
    /\ UNCHANGED <<ldrVars, runVars, peVars, sumVars, dspVars>>

ClsNext ==
    \/ output_to_json
    \/ get_crates_step
    \/ get_crates_return
    \/ split_findings_parse
    \/ split_findings_step
    \/ split_findings_return

InitClassify == ClsInit /\ LdrIdle /\ RunIdle /\ PeIdle /\ SumIdle /\ DspIdle

SpecClassify == InitClassify /\ [][ClsNext]_vars

(***************************************************************************)
(* Classification: properties                                              *)
(***************************************************************************)
Scanning == cpc \in {"get_crates", "split_parse", "split_findings", "do_report"}

\* An error-level compiler-message among the first k scanned values names n.
ErrorNamed(n, k) ==
    \E j \in 1..k :
        /\ IsCompilerMessage(output[j])
        /\ output[j].name = n
        /\ output[j].level = "error"

\* C1: once an error-level compiler-message has named a unit, the unit's
\* status is failed (false) in every later state of the scan and in the
\* returned map.
C1_FailedStaysFailed ==
    Scanning =>
        \A n \in Names :
            ErrorNamed(n, ci) => (n \in DOMAIN crates /\ crates[n] = FALSE)

Occurrences(list, i) == Cardinality({k \in 1..Len(list) : list[k].src = i})

InInputOrder(list) ==
    \A k1, k2 \in 1..Len(list) : k1 < k2 => list[k1].src < list[k2].src

Declares(rec) == rec.wf /\ rec.crate # "none" /\ rec.message

MarkedFailed(krate) == krate \in DOMAIN crates /\ crates[krate] = FALSE

\* The scenario of the specification: the compiler-messages naming pallet_a
\* are error-level ones (at least one), and no compiler-message names pallet_b.
Scenario ==
    /\ \E j \in 1..Len(output) :
           IsCompilerMessage(output[j]) /\ output[j].name = "pallet_a"
    /\ \A j \in 1..Len(output) :
           IsCompilerMessage(output[j]) =>
               /\ output[j].name = "pallet_a"
               /\ output[j].level = "error"

HasMalformedLine == \E j \in 1..Len(output_string) : ~output_string[j].wf

\* C13: when the captured stream holds a line that is not JSON (and the
\* finding records are all JSON), classification does not panic, and once
\* get_crates has returned the unit-status map has an entry for every unit
\* named by a well-formed compiler-message line, before or after that line.
C13_MalformedLinesSkipped ==
    (HasMalformedLine /\ \A i \in 1..Len(raw_findings) : raw_findings[i].wf) =>
        /\ cpc # "panic"
        /\ cpc \in {"split_parse", "split_findings", "do_report"} =>
               \A j \in 1..Len(output_string) :
                   (output_string[j].wf /\ IsCompilerMessage(output_string[j])) =>
                       output_string[j].name \in DOMAIN crates

(***************************************************************************)
(* Plugin loader: operations                                               *)
(***************************************************************************)
LdrInit ==
    /\ lpc = "loop"
    /\ detectors_paths \in SeqsUpTo(Plugins, MaxPlugins)
    /\ li = 0
    /\ lint_store = EmptyMap
    /\ custom_dectectors = EmptyMap
    /\ lib_refs = [j \in 1..Len(detectors_paths) |-> 0]
    /\ ldr_error = 0
    /\ calls = {}

\* lines 76-79, 82-90, 97-103: the three `?` of one iteration.
LoadFails(p) == ~p.opens \/ ~p.lint_info \/ ~p.utf8

\* line 107: lint_store.insert(id.clone(), lint_info).
StoreLintInfo(store, id, j) == HashMapInsert(store, id, j)

\* line 110: custom_dectectors.insert(id, CustomLint::new(lib, ...)).
StoreCustomLint(store, id, j) == HashMapInsert(store, id, j)

\* Mutant: CustomLint keeps the Symbol only, so the Arc of the iteration is
\* dropped at the end of the loop body.
RefsAfterInsert_SymbolOnly(refs, store, p, j) ==
    [k \in DOMAIN refs |-> IF k = j THEN 0 ELSE refs[k]]

\* The strong counts after iteration j: the CustomLint the insert replaces is
\* dropped, and with it the Arc<Library> it owns; the Arc of this iteration
\* lives on only inside the new CustomLint.
RefsAfterInsert(refs, store, p, j) ==
    [k \in DOMAIN refs |->
        IF k = j THEN (IF p.custom THEN 1 ELSE 0)
        ELSE IF p.custom /\ p.id \in DOMAIN store /\ store[p.id] = k THEN 0
        ELSE refs[k]]

\* One iteration of the for loop (lines 75-112), or the early return of `?`:
\* the error names the path, both maps are dropped and every library they
\* own is unloaded.
get_detectors_info_step ==
    /\ lpc = "loop"
    /\ li < Len(detectors_paths)
    /\ LET j == li + 1
           p == detectors_paths[j]
       IN IF LoadFails(p)
             THEN /\ lpc' = "err"
                  /\ ldr_error' = j
                  /\ lint_store' = EmptyMap
                  /\ custom_dectectors' = EmptyMap
                  /\ lib_refs' = [k \in DOMAIN lib_refs |-> 0]
                  /\ li' = li
             ELSE /\ lint_store' = StoreLintInfo(lint_store, p.id, j)
                  /\ custom_dectectors' =
                        IF p.custom THEN StoreCustomLint(custom_dectectors, p.id, j)
                                    ELSE custom_dectectors
                  /\ lib_refs' = RefsAfterInsert(lib_refs, custom_dectectors, p, j)
                  /\ li' = j
                  /\ UNCHANGED <<lpc, ldr_error>>
    /\ UNCHANGED <<detectors_paths, calls>>
    /\ UNCHANGED <<clsVars, runVars, peVars, sumVars, dspVars>>

\* line 114: Ok((lint_store, custom_dectectors)).
get_detectors_info_return ==
    /\ lpc = "loop"
    /\ li = Len(detectors_paths)
    /\ lpc' = "ok"
    /\ UNCHANGED <<detectors_paths, li, lint_store, custom_dectectors, lib_refs,
                   ldr_error, calls>>
    /\ UNCHANGED <<clsVars, runVars, peVars, sumVars, dspVars>>

\* CustomLint::call (lines 57-61) on an entry of the returned map: the
\* function behind the Symbol runs. loaded records whether the library the
\* symbol was resolved from is still mapped when it runs.
CustomLint_call ==
    /\ lpc = "ok"
    /\ \E id \in DOMAIN custom_dectectors :
          LET lib == custom_dectectors[id] IN
          /\ [id |-> id, lib |-> lib, loaded |-> TRUE] \notin calls
          /\ calls' = calls \cup {[id |-> id, lib |-> lib, loaded |-> lib_refs[lib] >= 1]}
    /\ UNCHANGED <<lpc, detectors_paths, li, lint_store, custom_dectectors, lib_refs,
                   ldr_error>>
    /\ UNCHANGED <<clsVars, runVars, peVars, sumVars, dspVars>>

\* The caller drops the returned maps: every CustomLint goes, and with it
\* the Arc<Library> it owns (lines 29-32), which unloads the library.
drop_detectors_info ==
    /\ lpc = "ok"
    /\ lpc' = "dropped"
    /\ lint_store' = EmptyMap
    /\ custom_dectectors' = EmptyMap
    /\ lib_refs' = [k \in DOMAIN lib_refs |-> 0]
    /\ UNCHANGED <<detectors_paths, li, ldr_error, calls>>
    /\ UNCHANGED <<clsVars, runVars, peVars, sumVars, dspVars>>

LdrNext ==
    \/ get_detectors_info_step
    \/ get_detectors_info_return
    \/ CustomLint_call
    \/ drop_detectors_info

InitLoader == LdrInit /\ ClsIdle /\ RunIdle /\ PeIdle /\ SumIdle /\ DspIdle

SpecLoader == InitLoader /\ [][LdrNext]_vars

(***************************************************************************)
(* Plugin loader: properties                                               *)
(***************************************************************************)
LdrReturned == lpc \in {"ok", "err"}

\* C3: when one plugin of the list fails to load, the error names that
\* plugin's path, and every valid plugin of the list, before or after the
\* failing one, is loaded and present in the result.
C3_FailureDoesNotAbortBatch ==
    LdrReturned =>
        /\ (\E j \in 1..Len(detectors_paths) : LoadFails(detectors_paths[j]))
              => (ldr_error # 0 /\ LoadFails(detectors_paths[ldr_error]))
        /\ \A j \in 1..Len(detectors_paths) :
              ValidPlugin(detectors_paths[j])
                  => detectors_paths[j].id \in DOMAIN lint_store

\* C4: two plugins that declare the same identifier are reported to the
\* caller: no successful result exists in which the later plugin has
\* replaced the earlier one under that key.
C4_DuplicateIdsSurfaced ==
    lpc = "ok" =>
        \A j1, j2 \in 1..Len(detectors_paths) :
            (j1 < j2) => detectors_paths[j1].id # detectors_paths[j2].id

AllValid == \A j \in 1..Len(detectors_paths) : ValidPlugin(detectors_paths[j])

DeclaredIds == {detectors_paths[j].id : j \in 1..Len(detectors_paths)}

\* C11: for a list of valid plugins get_detectors_info succeeds and the keys
\* of the metadata map are the identifiers the plugins declare; a plugin
\* without the custom_detector export is no error, it is in the metadata map
\* and not in the entry-point map; every key of the entry-point map is a key
\* of the metadata map.
C11_PluginMapKeys ==
    AllValid =>
        /\ lpc # "err"
        /\ lpc = "ok" =>
              /\ DOMAIN lint_store = DeclaredIds
              /\ DOMAIN custom_dectectors \subseteq DOMAIN lint_store
              /\ \A j \in 1..Len(detectors_paths) :
                    ~detectors_paths[j].custom =>
                        /\ detectors_paths[j].id \in DOMAIN lint_store
                        /\ detectors_paths[j].id \notin DOMAIN custom_dectectors


\* C16: every entry of the entry-point map refers to a library whose shared
\* handle count is at least 1, in every state in which the entry exists;
\* every CustomLint::call made ran with its library loaded; and a library
\* whose count is 0 has no entry whose symbol was resolved from it, the
\* libraries of plugins without custom_detector included.
C16_LibraryOutlivesSymbols ==
    /\ \A id \in DOMAIN custom_dectectors :
           /\ custom_dectectors[id] \in DOMAIN lib_refs
           /\ lib_refs[custom_dectectors[id]] >= 1
    /\ \A c \in calls : c.loaded
    /\ \A j \in DOMAIN lib_refs :
           lib_refs[j] = 0 =>
               \A id \in DOMAIN custom_dectectors : custom_dectectors[id] # j
    /\ \A j \in 1..li :
           ~detectors_paths[j].custom =>
               /\ lib_refs[j] = 0
               /\ \A id \in DOMAIN custom_dectectors : custom_dectectors[id] # j

\* get_detectors_info returned a map in which a later plugin's entry point
\* replaced an earlier one's under the same id, beside a plugin without
\* custom_detector, and CustomLint::call was invoked on the entry.
C16_Witness ==
    /\ lpc = "ok"
    /\ calls # {}
    /\ \E j1, j2, j3 \in 1..Len(detectors_paths) :
           /\ j1 < j2
           /\ detectors_paths[j1].custom /\ detectors_paths[j2].custom
           /\ detectors_paths[j1].id = detectors_paths[j2].id
           /\ lib_refs[j1] = 0 /\ lib_refs[j2] = 1
           /\ ~detectors_paths[j3].custom

(***************************************************************************)
(* run_scout: operations                                                   *)
(***************************************************************************)
RunInit ==
    /\ rpc = "start"
    /\ opts \in [toolchain : BOOLEAN, list_detectors : BOOLEAN,
                 detectors_metadata : BOOLEAN]
    /\ dependencies \in SUBSET DependencyNames
    /\ active_toolchain \in ActiveToolchains
    /\ toolchain = "none"
    /\ child = "none"
    /\ child_exit = -1
    /\ ran = {}
    /\ successful_build = "none"
    /\ dylint_result = "none"
    /\ run_result = "none"

\* `return Ok(())`, or `?` on an Err.
Return(result) == rpc' = "returned" /\ run_result' = result

\* A stage whose failure is propagated with `?`.
FallibleStage(stage, next) ==
    /\ rpc = stage
    /\ ran' = ran \cup {stage}
    /\ \E ok \in BOOLEAN :
          IF ok THEN rpc' = next /\ UNCHANGED run_result
                ELSE Return("Err")

\* lines 286-289: validate, prepare_args, get_project_metadata.
run_start ==
    /\ FallibleStage("start", "dispatch")
    /\ UNCHANGED <<opts, dylint_result, dependencies, active_toolchain, toolchain, child, child_exit,
                   successful_build>>
    /\ UNCHANGED <<clsVars, ldrVars, peVars, sumVars, dspVars>>

\* lines 290-296: the required toolchain, and the --toolchain early return.
run_dispatch ==
    /\ rpc = "dispatch"
    /\ ran' = ran \cup {"dispatch"}
    /\ LET blockchain == get_blockchain_dependency(dependencies) IN
         IF blockchain = "Err"
            THEN Return("Err") /\ UNCHANGED toolchain
            ELSE /\ toolchain' = get_toolchain(blockchain)
                 /\ IF opts.toolchain
                       THEN Return("Ok")
                       ELSE rpc' = "reexec" /\ UNCHANGED run_result
    /\ UNCHANGED <<opts, dylint_result, dependencies, active_toolchain, child, child_exit,
                   successful_build>>
    /\ UNCHANGED <<clsVars, ldrVars, peVars, sumVars, dspVars>>

\* run_scout_in_nightly: None when the process already runs under the
\* required toolchain, else a child running the same command line under it.
NeedsReexec(active, required) == active # required

\* Mutant: the re-exec branch falls through into the pipeline.
AfterChildWait_FallThrough == "update_check"

\* lines 299-302: after a successful wait the parent returns.
AfterChildWait == "returned"

\* line 302: the value the parent returns after the child has exited.
ResultAfterChild(code) == "Ok"

\* line 298: run_scout_in_nightly(toolchain)?
run_scout_in_nightly ==
    /\ rpc = "reexec"
    /\ ran' = ran \cup {"reexec"}
    /\ IF NeedsReexec(active_toolchain, toolchain)
          THEN \E spawned \in BOOLEAN :
                  IF spawned
                     THEN rpc' = "wait_child" /\ child' = "running"
                          /\ UNCHANGED run_result
                     ELSE Return("Err") /\ UNCHANGED child
          ELSE rpc' = "update_check" /\ UNCHANGED <<child, run_result>>
    /\ UNCHANGED <<opts, dylint_result, dependencies, active_toolchain, toolchain, child_exit,
                   successful_build>>
    /\ UNCHANGED <<clsVars, ldrVars, peVars, sumVars, dspVars>>

\* lines 299-302: child.wait()?, then return Ok(()).
run_wait_child ==
    /\ rpc = "wait_child"
    /\ ran' = ran \cup {"wait_child"}
    /\ \/ \E code \in ExitCodes :
             /\ child' = "exited"
             /\ child_exit' = code
             /\ rpc' = AfterChildWait
             /\ run_result' = IF AfterChildWait = "returned"
                                 THEN ResultAfterChild(code) ELSE run_result
       \/ /\ Return("Err")
          /\ UNCHANGED <<child, child_exit>>
    /\ UNCHANGED <<opts, dylint_result, dependencies, active_toolchain, toolchain, successful_build>>
    /\ UNCHANGED <<clsVars, ldrVars, peVars, sumVars, dspVars>>

\* lines 305-310: a failed update check is printed, never propagated.
run_update_check ==
    /\ rpc = "update_check"
    /\ ran' = ran \cup {"update_check"}
    /\ rpc' = "detectors_config"
    /\ UNCHANGED <<opts, dylint_result, dependencies, active_toolchain, toolchain, child, child_exit,
                   successful_build, run_result>>
    /\ UNCHANGED <<clsVars, ldrVars, peVars, sumVars, dspVars>>

\* lines 312-335: cargo configuration and detectors configuration.
run_detectors_config ==
    /\ FallibleStage("detectors_config", "detector_names")
    /\ UNCHANGED <<opts, dylint_result, dependencies, active_toolchain, toolchain, child, child_exit,
                   successful_build>>
    /\ UNCHANGED <<clsVars, ldrVars, peVars, sumVars, dspVars>>

\* lines 338-353: detector names, and the --list-detectors early return.
run_detector_names ==
    /\ rpc = "detector_names"
    /\ ran' = ran \cup {"detector_names"}
    /\ \E ok \in BOOLEAN :
          IF ~ok THEN Return("Err")
          ELSE IF opts.list_detectors THEN Return("Ok")
          ELSE rpc' = "select_detectors" /\ UNCHANGED run_result
    /\ UNCHANGED <<opts, dylint_result, dependencies, active_toolchain, toolchain, child, child_exit,
                   successful_build>>
    /\ UNCHANGED <<clsVars, ldrVars, peVars, sumVars, dspVars>>

\* lines 355-374: profile, filter, exclude.
run_select_detectors ==
    /\ FallibleStage("select_detectors", "build_detectors")
    /\ UNCHANGED <<opts, dylint_result, dependencies, active_toolchain, toolchain, child, child_exit,
                   successful_build>>
    /\ UNCHANGED <<clsVars, ldrVars, peVars, sumVars, dspVars>>

\* lines 376-383: detector_builder.build.
run_build_detectors ==
    /\ FallibleStage("build_detectors", "get_detectors_info")
    /\ UNCHANGED <<opts, dylint_result, dependencies, active_toolchain, toolchain, child, child_exit,
                   successful_build>>
    /\ UNCHANGED <<clsVars, ldrVars, peVars, sumVars, dspVars>>

\* lines 385-391: get_detectors_info(&detectors_paths)?, and the --metadata
\* early return.
run_get_detectors_info ==
    /\ rpc = "get_detectors_info"
    /\ ran' = ran \cup {"get_detectors_info"}
    /\ \E ok \in BOOLEAN :
          IF ~ok THEN Return("Err")
          ELSE IF opts.detectors_metadata THEN Return("Ok")
          ELSE rpc' = "project_info" /\ UNCHANGED run_result
    /\ UNCHANGED <<opts, dylint_result, dependencies, active_toolchain, toolchain, child, child_exit,
                   successful_build>>
    /\ UNCHANGED <<clsVars, ldrVars, peVars, sumVars, dspVars>>

\* lines 393-394: ProjectInfo::get_project_info.
run_project_info ==
    /\ FallibleStage("project_info", "run_dylint")
    /\ UNCHANGED <<opts, dylint_result, dependencies, active_toolchain, toolchain, child, child_exit,
                   successful_build>>
    /\ UNCHANGED <<clsVars, ldrVars, peVars, sumVars, dspVars>>

\* run_dylint line 503: let success = dylint::run(&options).is_err().
DylintSuccessFlag(driver_ok) == ~driver_ok

\* lines 404-408 and run_dylint (458-506): Err only when the temporary file
\* cannot be created; the driver's outcome is returned as a flag.
run_dylint ==
    /\ rpc = "run_dylint"
    /\ ran' = ran \cup {"run_dylint"}
    /\ \E tempfile_ok \in BOOLEAN, driver_ok \in BOOLEAN :
          IF ~tempfile_ok
             THEN Return("Err") /\ UNCHANGED <<successful_build, dylint_result>>
             ELSE /\ dylint_result' = IF driver_ok THEN "Ok" ELSE "Err"
                  /\ successful_build' = DylintSuccessFlag(driver_ok)
                  /\ rpc' = "classify"
                  /\ UNCHANGED run_result
    /\ UNCHANGED <<opts, dependencies, active_toolchain, toolchain, child, child_exit>>
    /\ UNCHANGED <<clsVars, ldrVars, peVars, sumVars, dspVars>>

\* lines 410-413: temp_file_to_string(stdout)? then the classification,
\* whose unwrap() calls panic on a line or record that is not JSON.
run_classify ==
    /\ rpc = "classify"
    /\ ran' = ran \cup {"classify"}
    /\ \E outcome \in {"ok", "Err", "panic"} :
          IF outcome = "ok" THEN rpc' = "do_report" /\ UNCHANGED run_result
                            ELSE Return(outcome)
    /\ UNCHANGED <<opts, dylint_result, dependencies, active_toolchain, toolchain, child, child_exit,
                   successful_build>>
    /\ UNCHANGED <<clsVars, ldrVars, peVars, sumVars, dspVars>>

\* lines 416-424: do_report, whose result is the result of run_scout.
run_do_report ==
    /\ rpc = "do_report"
    /\ ran' = ran \cup {"do_report"}
    /\ \E result \in {"Ok", "Err"} : Return(result)
    /\ UNCHANGED <<opts, dylint_result, dependencies, active_toolchain, toolchain, child, child_exit,
                   successful_build>>
    /\ UNCHANGED <<clsVars, ldrVars, peVars, sumVars, dspVars>>

RunNext ==
    \/ run_start
    \/ run_dispatch
    \/ run_scout_in_nightly
    \/ run_wait_child
    \/ run_update_check
    \/ run_detectors_config
    \/ run_detector_names
    \/ run_select_detectors
    \/ run_build_detectors
    \/ run_get_detectors_info
    \/ run_project_info
    \/ run_dylint
    \/ run_classify
    \/ run_do_report

InitRun == RunInit /\ ClsIdle /\ LdrIdle /\ PeIdle /\ SumIdle /\ DspIdle

SpecRun == InitRun /\ [][RunNext]_vars

(***************************************************************************)
(* run_scout: properties                                                   *)
(***************************************************************************)
\* The exit code of the process: 0 when run_scout returns Ok, 1 when it
\* returns Err.
ExitCodeOf(result) == IF result = "Ok" THEN 0 ELSE 1

\* C5: when the re-exec child was spawned and waited for, the parent's own
\* exit code equals the child's exit code, for every child exit code.
C5_ExitCodePropagated ==
    (rpc = "returned" /\ child = "exited") => ExitCodeOf(run_result) = child_exit

\* C6: in every run in which a child was spawned, no stage below the
\* re-exec executes in the parent; a stage below the re-exec runs only in a
\* process that runs under the required toolchain.
C6_NoParentWorkAfterReexec ==
    /\ child # "none" => ran \cap LaterStages = {}
    /\ child # "none" => rpc \in {"wait_child", "returned"}
    /\ (ran \cap LaterStages # {} \/ rpc \in LaterStages) =>
           (child = "none" /\ active_toolchain = toolchain)

\* C6 witness: the parent has returned after its re-exec child exited.
C6_Witness ==
    /\ rpc = "returned"
    /\ child = "exited"
    /\ active_toolchain # toolchain
    /\ run_result = "Ok"

\* C14: once the driver invocation has returned, whether Ok or Err,
\* run_dylint has returned Ok with a flag, the parent goes on to
\* classification, and the flag is true exactly when the driver succeeded.
C14_DriverFailureRecorded ==
    dylint_result # "none" =>
        /\ successful_build \in BOOLEAN
        /\ rpc \in {"classify", "do_report", "returned"}
        /\ rpc = "returned" => "classify" \in ran
        /\ successful_build = (dylint_result = "Ok")

(***************************************************************************)
(* print_error: operations                                                 *)
(***************************************************************************)
\* A thread calls print_error (line 10); what the previous call of the
\* thread left behind is forgotten.
pe_call(t) ==
    /\ pe_pc[t] \in {"idle", "ended"}
    /\ pe_pc' = [pe_pc EXCEPT ![t] = "lock"]
    /\ port' = [port EXCEPT ![t] = "unread"]
    /\ cb_result' = [cb_result EXCEPT ![t] = "none"]
    /\ cb_calls' = [cb_calls EXCEPT ![t] = 0]
    /\ captures' = [captures EXCEPT ![t] = 0]
    /\ pipe_ok' = [pipe_ok EXCEPT ![t] = "none"]
    /\ sends' = [sends EXCEPT ![t] = 0]
    /\ send_ok' = [send_ok EXCEPT ![t] = "none"]
    /\ body' = [body EXCEPT ![t] = "none"]
    /\ pe_outcome' = [pe_outcome EXCEPT ![t] = "none"]
    /\ UNCHANGED <<lock, poisoned, stderr_to, out_capture>>
    /\ UNCHANGED <<clsVars, ldrVars, runVars, sumVars, dspVars>>

\* Mutant: lock().unwrap() panics on a poisoned Mutex.
LockResult_Unwrap(is_poisoned) == IF is_poisoned THEN "panic" ELSE "guard"

\* lines 11-13: lock().unwrap_or_else(|poisoned| poisoned.into_inner()).
LockResult(is_poisoned) == "guard"

\* lines 11-13: blocks until the Mutex is free.
pe_lock(t) ==
    /\ pe_pc[t] = "lock"
    /\ lock = 0
    /\ IF LockResult(poisoned) = "guard"
          THEN /\ lock' = t
               /\ pe_pc' = [pe_pc EXCEPT ![t] = "read_port"]
               /\ UNCHANGED pe_outcome
          ELSE /\ pe_pc' = [pe_pc EXCEPT ![t] = "ended"]
               /\ pe_outcome' = [pe_outcome EXCEPT ![t] = "rejected"]
               /\ UNCHANGED lock
    /\ UNCHANGED <<poisoned, stderr_to, port, out_capture, cb_result, cb_calls,
                   captures, pipe_ok, sends, send_ok, body>>
    /\ UNCHANGED <<clsVars, ldrVars, runVars, sumVars, dspVars>>

\* Mutant: the port check is skipped.
AfterPortCheck_AlwaysCapture(p) == "capture"

\* lines 17-20: if port.is_err() { cb(); return; }
AfterPortCheck(p) == IF p = "unset" THEN "cb_plain" ELSE "capture"

\* line 15: std::env::var("SCOUT_PORT_NUMBER").
pe_read_port(t) ==
    /\ pe_pc[t] = "read_port"
    /\ \E p \in {"set", "unset"} :
          /\ port' = [port EXCEPT ![t] = p]
          /\ pe_pc' = [pe_pc EXCEPT ![t] = AfterPortCheck(p)]
    /\ UNCHANGED <<lock, poisoned, stderr_to, out_capture, cb_result, cb_calls,
                   captures, pipe_ok, sends, send_ok, body, pe_outcome>>
    /\ UNCHANGED <<clsVars, ldrVars, runVars, sumVars, dspVars>>

\* lines 22-26: PipedStderr::capture(); on failure cb() runs uncaptured.
pe_capture(t) ==
    /\ pe_pc[t] = "capture"
    /\ captures' = [captures EXCEPT ![t] = @ + 1]
    /\ \E ok \in BOOLEAN :
          IF ok
             THEN /\ stderr_to' = t
                  /\ pipe_ok' = [pipe_ok EXCEPT ![t] = "ok"]
                  /\ pe_pc' = [pe_pc EXCEPT ![t] = "set_output_capture"]
             ELSE /\ pe_pc' = [pe_pc EXCEPT ![t] = "cb_plain"]
                  /\ pipe_ok' = [pipe_ok EXCEPT ![t] = "err"]
                  /\ UNCHANGED stderr_to
    /\ UNCHANGED <<lock, poisoned, port, out_capture, cb_result, cb_calls, sends,
                   send_ok, body, pe_outcome>>
    /\ UNCHANGED <<clsVars, ldrVars, runVars, sumVars, dspVars>>

\* lines 18 and 24: cb() outside catch_unwind; a panic unwinds at once.
pe_cb_plain(t) ==
    /\ pe_pc[t] = "cb_plain"
    /\ cb_calls' = [cb_calls EXCEPT ![t] = @ + 1]
    /\ \E r \in {"returned", "panicked"} :
          /\ cb_result' = [cb_result EXCEPT ![t] = r]
          /\ pe_pc' = [pe_pc EXCEPT ![t] = IF r = "panicked" THEN "unwind" ELSE "return"]
    /\ UNCHANGED <<lock, poisoned, stderr_to, port, out_capture, captures, pipe_ok, sends,
                   send_ok, body, pe_outcome>>
    /\ UNCHANGED <<clsVars, ldrVars, runVars, sumVars, dspVars>>

\* line 28: let old = std::io::set_output_capture(None).
pe_set_output_capture(t) ==
    /\ pe_pc[t] = "set_output_capture"
    /\ out_capture' = [out_capture EXCEPT ![t] = "none"]
    /\ pe_pc' = [pe_pc EXCEPT ![t] = "cb_guarded"]
    /\ UNCHANGED <<lock, poisoned, stderr_to, port, cb_result, cb_calls, captures, pipe_ok,
                   sends, send_ok, body, pe_outcome>>
    /\ UNCHANGED <<clsVars, ldrVars, runVars, sumVars, dspVars>>

\* lines 34-36: catch_unwind(|| cb()); a panic is kept in `result`.
pe_cb_guarded(t) ==
    /\ pe_pc[t] = "cb_guarded"
    /\ cb_calls' = [cb_calls EXCEPT ![t] = @ + 1]
    /\ \E r \in {"returned", "panicked"} :
          cb_result' = [cb_result EXCEPT ![t] = r]
    /\ pe_pc' = [pe_pc EXCEPT ![t] = "restore_output_capture"]
    /\ UNCHANGED <<lock, poisoned, stderr_to, port, out_capture, captures, pipe_ok, sends,
                   send_ok, body, pe_outcome>>
    /\ UNCHANGED <<clsVars, ldrVars, runVars, sumVars, dspVars>>

\* line 38: let _ = std::io::set_output_capture(old).
pe_restore_output_capture(t) ==
    /\ pe_pc[t] = "restore_output_capture"
    /\ out_capture' = [out_capture EXCEPT ![t] = "orig"]
    /\ pe_pc' = [pe_pc EXCEPT ![t] = "read_captured"]
    /\ UNCHANGED <<lock, poisoned, stderr_to, port, cb_result, cb_calls, captures, pipe_ok,
                   sends, send_ok, body, pe_outcome>>
    /\ UNCHANGED <<clsVars, ldrVars, runVars, sumVars, dspVars>>

\* lines 46-57: the captured line wrapped with the crate name when it parses
\* as JSON, else the captured text itself.
BodyOf(parses) == IF parses THEN "wrapped_json" ELSE "raw_text"

\* lines 39-57: read one captured line and build the body.
pe_read_captured(t) ==
    /\ pe_pc[t] = "read_captured"
    /\ \E parses \in BOOLEAN : body' = [body EXCEPT ![t] = BodyOf(parses)]
    /\ pe_pc' = [pe_pc EXCEPT ![t] = "send"]
    /\ UNCHANGED <<lock, poisoned, stderr_to, port, out_capture, cb_result, cb_calls,
                   captures, pipe_ok, sends, send_ok, pe_outcome>>
    /\ UNCHANGED <<clsVars, ldrVars, runVars, sumVars, dspVars>>

\* Mutant: the panic of cb is swallowed.
AfterSend_Swallow(r) == "return"

\* lines 65-67: if let Err(panic) = result { resume_unwind(panic) }.
AfterSend(r) == IF r = "panicked" THEN "unwind" ELSE "return"

\* lines 59-62: let _ = Client::new().post(..).body(body).send().
pe_send(t) ==
    /\ pe_pc[t] = "send"
    /\ sends' = [sends EXCEPT ![t] = @ + 1]
    /\ \E ok \in {"ok", "failed"} : send_ok' = [send_ok EXCEPT ![t] = ok]
    /\ pe_pc' = [pe_pc EXCEPT ![t] = AfterSend(cb_result[t])]
    /\ UNCHANGED <<lock, poisoned, stderr_to, port, out_capture, cb_result, cb_calls,
                   captures, pipe_ok, body, pe_outcome>>
    /\ UNCHANGED <<clsVars, ldrVars, runVars, sumVars, dspVars>>

\* The MutexGuard `_lock` is dropped on every exit of the function.
LockAfterDrop(holder, unwinding) == 0

\* The end of the call, by return or by unwinding: the locals are dropped in
\* reverse order of declaration, piped_stderr (which gives stderr back)
\* before _lock; a guard dropped while unwinding poisons the Mutex.
pe_exit(t) ==
    /\ pe_pc[t] \in {"return", "unwind"}
    /\ stderr_to' = IF stderr_to = t THEN 0 ELSE stderr_to
    /\ lock' = LockAfterDrop(lock, pe_pc[t] = "unwind")
    /\ poisoned' = (poisoned \/ pe_pc[t] = "unwind")
    /\ pe_outcome' = [pe_outcome EXCEPT ![t] =
                         IF pe_pc[t] = "unwind" THEN "panicked" ELSE "returned"]
    /\ pe_pc' = [pe_pc EXCEPT ![t] = "ended"]
    /\ UNCHANGED <<port, out_capture, cb_result, cb_calls, captures, pipe_ok, sends,
                   send_ok, body>>
    /\ UNCHANGED <<clsVars, ldrVars, runVars, sumVars, dspVars>>

PeNext ==
    \E t \in Threads :
        \/ pe_call(t)
        \/ pe_lock(t)
        \/ pe_read_port(t)
        \/ pe_capture(t)
        \/ pe_cb_plain(t)
        \/ pe_set_output_capture(t)
        \/ pe_cb_guarded(t)
        \/ pe_restore_output_capture(t)
        \/ pe_read_captured(t)
        \/ pe_send(t)
        \/ pe_exit(t)

InitPrintError == PeIdle /\ ClsIdle /\ LdrIdle /\ RunIdle /\ SumIdle /\ DspIdle

SpecPrintError == InitPrintError /\ [][PeNext]_vars

(***************************************************************************)
(* print_error: properties                                                 *)
(***************************************************************************)
\* The thread is between lock acquisition and the end of its call.
Inside(t) ==
    pe_pc[t] \in {"read_port", "capture", "cb_plain", "set_output_capture",
                  "cb_guarded", "restore_output_capture", "read_captured", "send",
                  "return", "unwind"}

\* C7: at most one call is between lock acquisition and its end, so the
\* redirect, invoke, restore and read steps of two calls never interleave;
\* the lock is free after every call has ended, by return or by panic, and
\* no call is rejected because an earlier callback panicked.
C7_CaptureMutualExclusion ==
    /\ \A t1, t2 \in Threads : (Inside(t1) /\ Inside(t2)) => t1 = t2
    /\ lock \in {0} \cup Threads
    /\ \A t \in Threads : Inside(t) <=> lock = t
    /\ stderr_to # 0 => lock = stderr_to
    /\ \A t \in Threads : out_capture[t] = "none" => lock = t
    /\ \A t \in Threads : pe_outcome[t] # "rejected"

\* C7 witness: after a callback panicked inside print_error, one thread
\* holds the lock again while another waits for it.
C7_Witness ==
    \E t1, t2 \in Threads :
        /\ t1 # t2
        /\ poisoned
        /\ lock = t1
        /\ pe_pc[t1] = "cb_guarded"
        /\ pe_pc[t2] = "lock"

\* C8: with no listener port configured the call invokes cb exactly once,
\* starts no output redirection, sends nothing, and ends the way cb ended.
C8_NoListenerPath ==
    \A t \in Threads :
        port[t] = "unset" =>
            /\ captures[t] = 0
            /\ sends[t] = 0
            /\ stderr_to # t
            /\ out_capture[t] = "orig"
            /\ cb_calls[t] <= 1
            /\ pe_pc[t] = "ended" =>
                  (cb_calls[t] = 1 /\ pe_outcome[t] = cb_result[t])

\* C8 witness: a call without listener has ended by the panic of cb.
C8_Witness ==
    \E t \in Threads :
        /\ pe_pc[t] = "ended"
        /\ port[t] = "unset"
        /\ cb_result[t] = "panicked"
        /\ pe_outcome[t] = "panicked"

\* C9 as claimed: whenever a listener is configured and cb panics, the panic
\* propagates only after the output channel is restored and the relay was
\* attempted, and it is then re-raised.
C9_PanicAfterRelay ==
    \A t \in Threads :
        (port[t] = "set" /\ cb_result[t] = "panicked") =>
            /\ pe_pc[t] \in {"unwind", "ended"} =>
                  (out_capture[t] = "orig" /\ sends[t] = 1)
            /\ pe_pc[t] = "ended" => pe_outcome[t] = "panicked"

\* C9 as amended: when a listener is configured and the stderr pipe was set
\* up, a panic of cb propagates only after the output capture is restored
\* and the relay was attempted once; it is then always re-raised, also when
\* the send failed, and a failed send alone never makes the call fail.
C9_PanicAfterRelayWhenCaptured ==
    \A t \in Threads :
        (port[t] = "set" /\ pipe_ok[t] = "ok") =>
            /\ pe_pc[t] = "unwind" =>
                  (cb_result[t] = "panicked" /\ out_capture[t] = "orig" /\ sends[t] = 1)
            /\ pe_pc[t] = "ended" =>
                  /\ pe_outcome[t] = cb_result[t]
                  /\ out_capture[t] = "orig"
                  /\ stderr_to # t
                  /\ sends[t] = 1
                  /\ cb_calls[t] = 1

\* C9 witness: cb panicked, the relay send failed, and the call ended by
\* re-raising the panic.
C9_Witness ==
    \E t \in Threads :
        /\ pe_pc[t] = "ended"
        /\ port[t] = "set"
        /\ pipe_ok[t] = "ok"
        /\ cb_result[t] = "panicked"
        /\ send_ok[t] = "failed"
        /\ pe_outcome[t] = "panicked"

\* C15: the lock is not held during the relay's send: a thread at the send
\* step no longer holds it, so a thread waiting for the lock while another
\* one is sending finds the lock free or held by a third call.
C15_LockReleasedBeforeSend ==
    /\ \A t \in Threads : pe_pc[t] = "send" => lock # t
    /\ \A t1, t2 \in Threads :
           (pe_pc[t1] = "send" /\ pe_pc[t2] = "lock") => lock # t1

(***************************************************************************)
(* Report summary: operations                                              *)
(***************************************************************************)
SumInit ==
    /\ spc = "summarize_findings"
    /\ categories \in SeqsUpTo(Categories, MaxCategories)
    /\ findings \in SeqsUpTo(CategoryIds, MaxReportFindings)
    /\ si = 0
    /\ summary = EmptyMap
    /\ gi = 0
    /\ summary_categories = <<>>

\* utils::capitalize: the first letter in upper case.
capitalize(severity) ==
    CASE severity = "medium" -> "Medium"
      [] OTHER -> severity

\* line 56: categories.iter().find(|c| c.id == finding.category_id): the
\* index of the first category with the id, 0 when there is none.
FindCategory(cats, id) ==
    IF \E k \in 1..Len(cats) : cats[k].id = id
       THEN CHOOSE k \in 1..Len(cats) :
                /\ cats[k].id = id
                /\ \A k2 \in 1..(k - 1) : cats[k2].id # id
       ELSE 0

\* lines 57-61: the capitalized severity of the first vulnerability, or "".
SeverityOf(category) ==
    IF Len(category.vulnerabilities) = 0
       THEN ""
       ELSE capitalize(category.vulnerabilities[1])

\* lines 62-63: entry(id).or_insert((0, severity)), then entry.0 += 1.
CountFinding(m, id, severity) ==
    IF id \in DOMAIN m
       THEN [m EXCEPT ![id] = [count |-> @.count + 1, severity |-> @.severity]]
       ELSE HashMapInsert(m, id, [count |-> 1, severity |-> severity])

\* summarize_findings lines 55-65: one iteration of the for loop.
summarize_findings_step ==
    /\ spc = "summarize_findings"
    /\ si < Len(findings)
    /\ si' = si + 1
    /\ LET k == FindCategory(categories, findings[si + 1]) IN
         summary' = IF k = 0
                       THEN summary
                       ELSE CountFinding(summary, categories[k].id,
                                         SeverityOf(categories[k]))
    /\ UNCHANGED <<spc, categories, findings, gi, summary_categories>>
    /\ UNCHANGED <<clsVars, ldrVars, runVars, peVars, dspVars>>

\* summarize_findings line 67.
summarize_findings_return ==
    /\ spc = "summarize_findings"
    /\ si = Len(findings)
    /\ spc' = "filter_map"
    /\ UNCHANGED <<categories, findings, si, summary, gi, summary_categories>>
    /\ UNCHANGED <<clsVars, ldrVars, runVars, peVars, dspVars>>

\* generate_summary_context lines 27-40: one category of the filter_map.
generate_summary_context_step ==
    /\ spc = "filter_map"
    /\ gi < Len(categories)
    /\ gi' = gi + 1
    /\ LET category == categories[gi + 1] IN
         summary_categories' =
             IF category.id \in DOMAIN summary
                THEN Append(summary_categories,
                            [id |-> category.id,
                             results_count |-> summary[category.id].count,
                             severity |-> summary[category.id].severity])
                ELSE summary_categories
    /\ UNCHANGED <<spc, categories, findings, si, summary>>
    /\ UNCHANGED <<clsVars, ldrVars, runVars, peVars, dspVars>>

\* generate_summary_context lines 42-45.
generate_summary_context_return ==
    /\ spc = "filter_map"
    /\ gi = Len(categories)
    /\ spc' = "done"
    /\ UNCHANGED <<categories, findings, si, summary, gi, summary_categories>>
    /\ UNCHANGED <<clsVars, ldrVars, runVars, peVars, dspVars>>

SumNext ==
    \/ summarize_findings_step
    \/ summarize_findings_return
    \/ generate_summary_context_step
    \/ generate_summary_context_return

InitSummary == SumInit /\ ClsIdle /\ LdrIdle /\ RunIdle /\ PeIdle /\ DspIdle

SpecSummary == InitSummary /\ [][SumNext]_vars

(***************************************************************************)
(* Report summary: properties                                              *)
(***************************************************************************)
FindingsOf(id) == Cardinality({k \in 1..Len(findings) : findings[k] = id})

RECURSIVE SumCounts(_)
SumCounts(list) ==
    IF list = <<>> THEN 0 ELSE Head(list).results_count + SumCounts(Tail(list))

\* C10: for every report, the count emitted for a category equals the
\* number of findings of the report with that category, and the emitted
\* counts add up to the number of findings of the report.
C10_SummaryCounts ==
    spc = "done" =>
        /\ \A k \in 1..Len(summary_categories) :
              summary_categories[k].results_count =
                  FindingsOf(summary_categories[k].id)
        /\ SumCounts(summary_categories) = Len(findings)

(***************************************************************************)
(* Toolchain dispatch: operations                                          *)
(***************************************************************************)
DspInit ==
    /\ metadata \in Metadatas
    /\ dispatched = <<>>

\* Mutant: the dependencies of every package record, transitive ones included.
get_immediate_dependencies_AllPackages(md) ==
    UNION {md.packages[p] : p \in DOMAIN md.packages}

\* BlockChain::get_immediate_dependencies (lines 36-48): the workspace members
\* that have a package record (filter_map over find), then the name of every
\* dependency those packages declare, collected into a HashSet.
get_immediate_dependencies(md) ==
    LET root_packages == {x \in md.workspace_members : x \in DOMAIN md.packages}
    IN  UNION {md.packages[package] : package \in root_packages}

\* run_scout lines 289-291: get_blockchain_dependency(&metadata), whose Err
\* lists BlockChain::variants(), then blockchain.get_toolchain().
Dispatch(md) ==
    LET immediate_dependencies == get_immediate_dependencies(md)
        blockchain == get_blockchain_dependency(immediate_dependencies)
    IN  IF blockchain = "Err"
           THEN [blockchain |-> "Err", toolchain |-> "none", supported |-> variants]
           ELSE [blockchain |-> blockchain, toolchain |-> get_toolchain(blockchain),
                 supported |-> <<>>]

\* One run of dispatch on the project; the metadata is borrowed immutably.
dispatch_call ==
    /\ Len(dispatched) < MaxDispatchRuns
    /\ dispatched' = Append(dispatched, Dispatch(metadata))
    /\ UNCHANGED metadata
    /\ UNCHANGED <<clsVars, ldrVars, runVars, peVars, sumVars>>

DspNext == dispatch_call

InitDispatch == DspInit /\ ClsIdle /\ LdrIdle /\ RunIdle /\ PeIdle /\ SumIdle

SpecDispatch == InitDispatch /\ [][DspNext]_vars

(***************************************************************************)
(* Toolchain dispatch: properties                                          *)
(***************************************************************************)
\* The dependency names declared by workspace members.
MemberDeclared(n) ==
    \E m \in metadata.workspace_members :
        m \in DOMAIN metadata.packages /\ n \in metadata.packages[m]

\* C12: every run of dispatch returns the first of soroban-sdk, ink,
\* frame-system that some workspace member declares as a dependency, whatever
\* the other packages declare; it is an error naming the supported ecosystems
\* exactly when no member declares any of the three; and all runs on the same
\* project return the same ecosystem and the same toolchain string.
C12_DispatchFirstMatch ==
    \A k \in 1..Len(dispatched) :
        LET r == dispatched[k] IN
        /\ r.blockchain = "Soroban" <=> MemberDeclared("soroban-sdk")
        /\ r.blockchain = "Ink" <=>
               MemberDeclared("ink") /\ ~MemberDeclared("soroban-sdk")
        /\ r.blockchain = "SubstratePallet" <=>
               /\ MemberDeclared("frame-system")
               /\ ~MemberDeclared("ink")
               /\ ~MemberDeclared("soroban-sdk")
        /\ r.blockchain = "Err" <=>
               /\ ~MemberDeclared("frame-system")
               /\ ~MemberDeclared("ink")
               /\ ~MemberDeclared("soroban-sdk")
        /\ r.blockchain = "Err" => r.supported = variants
        /\ r.blockchain # "Err" => r.toolchain \in {INK_TOOLCHAIN, SOROBAN_TOOLCHAIN}
        /\ \A k2 \in 1..Len(dispatched) :
               /\ dispatched[k2].blockchain = r.blockchain
               /\ dispatched[k2].toolchain = r.toolchain

\* Dispatch ran twice on a project whose member declares ink and frame-system
\* while a package outside the workspace declares soroban-sdk.
C12_Witness ==
    /\ Len(dispatched) = 2
    /\ dispatched[2].blockchain = "Ink"
    /\ MemberDeclared("ink") /\ MemberDeclared("frame-system")
    /\ \E p \in DOMAIN metadata.packages :
           /\ p \notin metadata.workspace_members
           /\ "soroban-sdk" \in metadata.packages[p]

====
